---- MODULE Spec2Model ----
(***************************************************************************)
(* State-machine model of the persistent stores and drivers of the         *)
(* passive-income automation scripts:                                      *)
(*   - auto_poster.ContentScheduler   (scheduled_posts table)              *)
(*   - link_tracker.LinkTracker       (links / clicks / conversions)       *)
(*   - adaptive_engine.AdaptiveEngine (content_performance table)          *)
(*   - automate.FullAutomation        (run_cycle)                          *)
(*   - scheduler.ContentScheduler     (daily log, daemon cycles)           *)
(* Time is an integer number of hours since an epoch that falls on a       *)
(* Monday at 00:00; one clock serves Python's datetime.now() and SQLite's  *)
(* 'now'.  SQL NULL in a numeric column is written Null (-1), in a text    *)
(* column "NULL".                                                          *)
(***************************************************************************)
EXTENDS Integers, Sequences, FiniteSets, TLC

VARIABLES
    now,                  \* the wall clock, in hours
    second,               \* the seconds elapsed in the current hour
    last,                 \* the last call made: [op, arg, ret]
    scheduled_posts,      \* auto_poster: table scheduled_posts, in id order
    links,                \* link_tracker: table links, in id order
    clicks,               \* link_tracker: table clicks, in id order
    conversions,          \* link_tracker: table conversions, in id order
    content_performance,  \* adaptive_engine: table content_performance (set of rows)
    perf_seq,             \* adaptive_engine: AUTOINCREMENT counter of content_performance
    can_create_video,     \* automate: FullAutomation.can_create_video
    tiktok_queue,         \* content/tiktok_queue: metadata file name -> metadata
    script_files,         \* content/scripts: names of the saved script files
    video_files,          \* content/videos: paths of the created videos
    today_log,            \* scheduler: ContentScheduler.today_log
    daily_log_file,       \* scheduler: data/daily_log.json (<<>> when absent)
    queue_dir_exists,     \* whether the directory content/tiktok_queue exists
    tiktok_site,          \* the uploads TikTok accepted, in order
    ab_tests,             \* adaptive_engine: table ab_tests, in id order
    installed             \* the optional packages that import: PIL, edge_tts, gtts

vars == <<now, second, last, scheduled_posts, links, clicks, conversions,
          content_performance, perf_seq, can_create_video, tiktok_queue,
          script_files, video_files, today_log, daily_log_file,
          queue_dir_exists, tiktok_site, ab_tests, installed>>

posterVars   == <<scheduled_posts>>
trackerVars  == <<links, clicks, conversions>>
adaptiveVars == <<content_performance, perf_seq>>
queueVars    == <<tiktok_queue, script_files, video_files>>
daemonVars   == <<today_log, daily_log_file>>
uploadVars   == <<queue_dir_exists, tiktok_site>>
abVars       == <<ab_tests>>
envVars      == <<installed>>

Null == -1
\* the optional imports of viral_video_creator and voiceover
Packages == {"PIL", "edge_tts", "gtts"}
NoCall == [op |-> "none", arg |-> <<>>, ret |-> <<>>]

----------------------------------------------------------------------------
(* Bounds of the model *)

MaxPosts == 2
MaxLinks == 2
MaxClicks == 3
MaxConversions == 2
MaxRecords == 3
MaxPatternRecords == 6
MaxVideos == 2
MaxSecond == 1
MaxCycleRecords == 3
MaxDaemonRecords == 4
MaxQueued == 2
MaxLimit == 2
MaxTexts == 2
MaxCuts == 1
MaxTests == 2
\* the calls of record_ab_result followed after a test has completed
MaxExtra == 1

\* the instants the clock can show: the epoch, one hour and one day later,
\* and the instants around the 30-day window of the pattern analysis
ClockPoints == {0, 1, 24, 720, 721, 745}
\* the instants used where only the order of events matters
ShortClock == {0, 24}

Platforms == {"tiktok", "twitter"}
ContentPaths == {[name |-> "clip", ext |-> ".mp4"], [name |-> "post", ext |-> ".txt"]}
ShortCodes == {"c1", "c2", "c3"}
Amounts == {1, 2}
ContentIds == {1, 2}
Profiles == {[hook_style |-> "hook", topic |-> "ai tools", product |-> "Jasper"],
             [hook_style |-> "tutorial", topic |-> "productivity", product |-> "Copy.ai"]}
\* the instants used for the pattern analysis: rows posted at 0 have left
\* the 30-day window at 721
PatternClock == {0, 721}
Styles == {"hook"}
Products == {"Jasper"}
\* midnight of three successive days
DayClock == {0, 24, 48}
\* the outcomes of random.choice(unused) that are tried
RecPicks == {"hook", "controversy"}
\* the videos handed to queue_video
QueuePaths == {<<0, 1>>}
\* what a stock-media fetch returns: 0 for None, or a clip
Fetched == {0, 1, 2}
\* the characters of the texts
Characters == {" ", "\n", "a"}
\* the variant names handed to record_ab_result: "A" is not 'a' in Python
Variants == {"a", "b", "A"}
\* the scores handed to record_ab_result
Scores == {10, 11}
\* the average scores <<of a, of b>> of the results recorded earlier
WarmAverages == {<<10, 10>>, <<11, 10>>, <<10, 11>>, <<12, 10>>, <<10, 12>>}

----------------------------------------------------------------------------
(* Generic helpers *)

RECURSIVE SumOver(_, _)
\* the sum of f[x] over the finite set S
SumOver(S, f) ==
    IF S = {} THEN 0
    ELSE LET x == CHOOSE y \in S : TRUE
         IN  f[x] + SumOver(S \ {x}, f)

Range(s) == {s[i] : i \in DOMAIN s}

\* the clock moves on to a later instant of the set S
TickIn(S) ==
    /\ \E t \in S : t > now /\ now' = t
    /\ second' = 0
    /\ last' = NoCall
    /\ UNCHANGED <<envVars, uploadVars, abVars, posterVars, trackerVars, adaptiveVars, can_create_video,
                   queueVars, daemonVars>>

----------------------------------------------------------------------------
(* auto_poster.ContentScheduler *)

ContentType(path) == IF path.ext \in {".mp4", ".mov"} THEN "video" ELSE "text"

\* the row INSERTed by schedule_post
NewPost(id, platform, content_path, scheduled_time) ==
    [id |-> id,
     content_type |-> ContentType(content_path),
     platform |-> platform,
     scheduled_time |-> scheduled_time,
     posted_time |-> Null,
     status |-> "pending",
     post_url |-> "NULL",
     error_message |-> "NULL"]

\* the table after schedule_post; scheduled_time = Null stands for the
\* argument None, replaced by datetime.now()
InsertPost(tbl, platform, content_path, scheduled_time) ==
    Append(tbl, NewPost(Len(tbl) + 1, platform, content_path,
                        IF scheduled_time = Null THEN now ELSE scheduled_time))

SetPosted(row, post_url) ==
    [row EXCEPT !.status = "posted", !.posted_time = now, !.post_url = post_url]

\* mark_failed writing a status outside the enum
SetFailedAsError(row, error) ==
    [row EXCEPT !.status = "error", !.error_message = error]

SetFailed(row, error) ==
    [row EXCEPT !.status = "failed", !.error_message = error]

schedule_post(platform, content_path, scheduled_time) ==
    /\ Len(scheduled_posts) < MaxPosts
    /\ scheduled_posts' = InsertPost(scheduled_posts, platform, content_path, scheduled_time)
    /\ last' = [op |-> "schedule_post", arg |-> <<platform>>,
                ret |-> <<Len(scheduled_posts) + 1>>]
    /\ UNCHANGED <<envVars, uploadVars, abVars, now, second, trackerVars, adaptiveVars, can_create_video, queueVars, daemonVars>>

mark_posted(post_id, post_url) ==
    /\ scheduled_posts' = [i \in DOMAIN scheduled_posts |->
                              IF scheduled_posts[i].id = post_id
                              THEN SetPosted(scheduled_posts[i], post_url)
                              ELSE scheduled_posts[i]]
    /\ last' = [op |-> "mark_posted", arg |-> <<post_id>>, ret |-> <<>>]
    /\ UNCHANGED <<envVars, uploadVars, abVars, now, second, trackerVars, adaptiveVars, can_create_video, queueVars, daemonVars>>

mark_failed(post_id, error) ==
    /\ scheduled_posts' = [i \in DOMAIN scheduled_posts |->
                              IF scheduled_posts[i].id = post_id
                              THEN SetFailed(scheduled_posts[i], error)
                              ELSE scheduled_posts[i]]
    /\ last' = [op |-> "mark_failed", arg |-> <<post_id>>, ret |-> <<>>]
    /\ UNCHANGED <<envVars, uploadVars, abVars, now, second, trackerVars, adaptiveVars, can_create_video, queueVars, daemonVars>>

\* the WHERE clause without the test of the status
IsDueAnyStatus(row, platform) ==
    /\ platform \notin {"NULL", ""} => row.platform = platform
    /\ row.scheduled_time <= now

\* the WHERE clause of get_pending_posts; the platform is tested only when
\* the argument is truthy ("NULL" stands for None)
IsDue(row, platform) ==
    /\ row.status = "pending"
    /\ platform \notin {"NULL", ""} => row.platform = platform
    /\ row.scheduled_time <= now

RECURSIVE OrderByScheduledTime(_)
\* ORDER BY scheduled_time; rows of the same time in id order
OrderByScheduledTime(S) ==
    IF S = {} THEN <<>>
    ELSE LET first == CHOOSE r \in S : \A o \in S :
                          \/ r.scheduled_time < o.scheduled_time
                          \/ r.scheduled_time = o.scheduled_time /\ r.id <= o.id
         IN  <<first>> \o OrderByScheduledTime(S \ {first})

\* ContentScheduler.get_pending_posts(platform): the returned rows
PendingPosts(platform) ==
    OrderByScheduledTime({row \in Range(scheduled_posts) : IsDue(row, platform)})

get_pending_posts(platform) ==
    /\ last' = [op |-> "get_pending_posts", arg |-> <<platform>>,
                ret |-> <<PendingPosts(platform)>>]
    /\ UNCHANGED <<envVars, uploadVars, abVars, now, second, posterVars, trackerVars,
                   adaptiveVars, can_create_video, queueVars, daemonVars>>

SchedulePostStep ==
    \E p \in Platforms, c \in ContentPaths, t \in {Null} \cup ShortClock :
        schedule_post(p, c, t)

MarkPostedStep ==
    \E id \in 1..(MaxPosts + 1) : mark_posted(id, "url")

MarkFailedStep ==
    \E id \in 1..(MaxPosts + 1) : mark_failed(id, "error")

GetPendingPostsStep ==
    \E p \in Platforms \cup {"NULL"} : get_pending_posts(p)

----------------------------------------------------------------------------
(* link_tracker.LinkTracker *)

\* get_link_by_code: the rows of links with that short code (at most one,
\* short_code is UNIQUE)
get_link_by_code(short_code) == {l \in Range(links) : l.short_code = short_code}

\* add_link: the INSERT fails on the UNIQUE constraint when the generated
\* code is already in the table, and the exception leaves the table as it was
add_link(short_code) ==
    /\ Len(links) < MaxLinks
    /\ IF get_link_by_code(short_code) = {}
       THEN /\ links' = Append(links, [id |-> Len(links) + 1,
                                       short_code |-> short_code,
                                       created_at |-> now])
            /\ last' = [op |-> "add_link", arg |-> <<short_code>>,
                        ret |-> <<Len(links) + 1>>]
       ELSE /\ links' = links
            /\ last' = [op |-> "add_link", arg |-> <<short_code>>, ret |-> <<"IntegrityError">>]
    /\ UNCHANGED <<envVars, uploadVars, abVars, now, second, clicks, conversions, posterVars, adaptiveVars,
                   can_create_video, queueVars, daemonVars>>

\* record_click without the lookup of the link
record_clickUnchecked(short_code) ==
    /\ Len(clicks) < MaxClicks
    /\ clicks' = Append(clicks, [id |-> Len(clicks) + 1, link_id |-> 0])
    /\ last' = [op |-> "record_click", arg |-> <<short_code>>, ret |-> <<TRUE>>]
    /\ UNCHANGED <<envVars, uploadVars, abVars, now, second, links, conversions, posterVars, adaptiveVars,
                   can_create_video, queueVars, daemonVars>>

record_click(short_code) ==
    /\ Len(clicks) < MaxClicks
    /\ LET link == get_link_by_code(short_code)
       IN  IF link = {}
           THEN /\ clicks' = clicks
                /\ last' = [op |-> "record_click", arg |-> <<short_code>>, ret |-> <<FALSE>>]
           ELSE /\ clicks' = Append(clicks, [id |-> Len(clicks) + 1,
                                             link_id |-> (CHOOSE l \in link : TRUE).id])
                /\ last' = [op |-> "record_click", arg |-> <<short_code>>, ret |-> <<TRUE>>]
    /\ UNCHANGED <<envVars, uploadVars, abVars, now, second, links, conversions, posterVars, adaptiveVars,
                   can_create_video, queueVars, daemonVars>>

record_conversion(short_code, amount) ==
    /\ Len(conversions) < MaxConversions
    /\ LET link == get_link_by_code(short_code)
       IN  IF link = {}
           THEN /\ conversions' = conversions
                /\ last' = [op |-> "record_conversion", arg |-> <<short_code>>, ret |-> <<FALSE>>]
           ELSE /\ conversions' = Append(conversions,
                                         [id |-> Len(conversions) + 1,
                                          link_id |-> (CHOOSE l \in link : TRUE).id,
                                          amount |-> amount])
                /\ last' = [op |-> "record_conversion", arg |-> <<short_code>>, ret |-> <<TRUE>>]
    /\ UNCHANGED <<envVars, uploadVars, abVars, now, second, links, clicks, posterVars, adaptiveVars,
                   can_create_video, queueVars, daemonVars>>

\* links l LEFT JOIN clicks c LEFT JOIN conversions cv, for one link: the
\* joined rows as pairs <<c.id, cv.id>>, 0 standing for the NULL of an
\* unmatched side
JoinedRows(l) ==
    LET cs  == {c.id : c \in {x \in Range(clicks) : x.link_id = l.id}}
        cvs == {v.id : v \in {x \in Range(conversions) : x.link_id = l.id}}
    IN  (IF cs = {} THEN {0} ELSE cs) \X (IF cvs = {} THEN {0} ELSE cvs)

\* get_links with COUNT(c.id), COUNT(cv.id) in place of COUNT(DISTINCT ...)
LinkAggregatesCountAll(l) ==
    LET J == JoinedRows(l)
        amountOf == [p \in J |-> IF p[2] = 0 THEN 0 ELSE conversions[p[2]].amount]
    IN  [id |-> l.id,
         short_code |-> l.short_code,
         created_at |-> l.created_at,
         total_clicks |-> Cardinality({p \in J : p[1] # 0}),
         total_conversions |-> Cardinality({p \in J : p[2] # 0}),
         total_revenue |-> IF \A p \in J : p[2] = 0 THEN 0 ELSE SumOver(J, amountOf)]

\* the aggregates of get_links over the joined rows of one link
LinkAggregates(l) ==
    LET J == JoinedRows(l)
        amountOf == [p \in J |-> IF p[2] = 0 THEN 0 ELSE conversions[p[2]].amount]
    IN  [id |-> l.id,
         short_code |-> l.short_code,
         created_at |-> l.created_at,
         total_clicks |-> Cardinality({p[1] : p \in J} \ {0}),
         total_conversions |-> Cardinality({p[2] : p \in J} \ {0}),
         total_revenue |-> IF \A p \in J : p[2] = 0 THEN 0 ELSE SumOver(J, amountOf)]

RECURSIVE NewestFirst(_)
\* ORDER BY created_at DESC (rows of one second in descending id order)
NewestFirst(S) ==
    IF S = {} THEN <<>>
    ELSE LET m == CHOOSE x \in S : \A y \in S :
                     \/ x.created_at > y.created_at
                     \/ x.created_at = y.created_at /\ x.id >= y.id
         IN  <<m>> \o NewestFirst(S \ {m})

get_links(limit) ==
    LET all == NewestFirst({LinkAggregates(l) : l \in Range(links)})
    IN  SubSeq(all, 1, IF Len(all) < limit THEN Len(all) ELSE limit)

GetLinksLimit == 50

AddLinkStep == \E c \in ShortCodes : add_link(c)
RecordClickStep == \E c \in ShortCodes : record_click(c)
RecordConversionStep == \E c \in ShortCodes, a \in Amounts : record_conversion(c, a)

----------------------------------------------------------------------------
(* adaptive_engine.AdaptiveEngine *)

\* self.weights
WeightViews == 1
WeightLikes == 5
WeightComments == 10
WeightShares == 15
WeightClicks == 50

\* posted_at.hour and posted_at.weekday() (0 = Monday)
HourOf(t) == t % 24
WeekdayOf(t) == (t \div 24) % 7

\* the row INSERTed by record_content: the columns it names, every other
\* column at its DEFAULT
NewContentRow(id, content_id, platform, content_type, hook_style, topic, product, posted_at) ==
    [id |-> id,
     content_id |-> content_id,
     platform |-> platform,
     content_type |-> content_type,
     hook_style |-> hook_style,
     topic |-> topic,
     product |-> product,
     posted_at |-> posted_at,
     hour_posted |-> HourOf(posted_at),
     day_of_week |-> WeekdayOf(posted_at),
     views |-> 0, likes |-> 0, comments |-> 0, shares |-> 0, clicks |-> 0,
     conversions |-> 0, revenue |-> 0,
     performance_score |-> 0]

\* a plain INSERT into a table without the UNIQUE constraint
InsertAlways(tbl, row) == tbl \cup {row}

\* INSERT OR REPLACE on the UNIQUE column content_id: the conflicting row is
\* deleted and the new row inserted under the next AUTOINCREMENT id
InsertOrReplace(tbl, row) ==
    {r \in tbl : r.content_id # row.content_id} \cup {row}

\* record_content; posted_at = Null stands for the argument None, replaced
\* by datetime.now()
record_content(content_id, platform, content_type, hook_style, topic, product, posted_at) ==
    /\ content_performance' =
          InsertOrReplace(content_performance,
              NewContentRow(perf_seq + 1, content_id, platform, content_type,
                            hook_style, topic, product,
                            IF posted_at = Null THEN now ELSE posted_at))
    /\ perf_seq' = perf_seq + 1

\* v = views or 0
OrZero(x) == IF x = Null THEN 0 ELSE x

\* the score update_metrics computes, from its arguments
ScoreOfArgs(m) ==
    OrZero(m.views) * WeightViews + OrZero(m.likes) * WeightLikes
    + OrZero(m.comments) * WeightComments + OrZero(m.shares) * WeightShares
    + OrZero(m.clicks) * WeightClicks

MetricFields == {"views", "likes", "comments", "shares", "clicks", "conversions", "revenue"}

\* the row after the UPDATE of update_metrics: the columns whose argument is
\* not None, and performance_score
UpdatedRow(row, m) ==
    [f \in DOMAIN row |->
        IF f \in MetricFields /\ m[f] # Null THEN m[f]
        ELSE IF f = "performance_score" THEN ScoreOfArgs(m)
        ELSE row[f]]

\* update_metrics; m maps each metric to its argument (Null for None).
\* Returns without a change when the content is unknown or no metric is given.
update_metrics(content_id, m) ==
    /\ IF \/ ~ \E r \in content_performance : r.content_id = content_id
          \/ \A f \in MetricFields : m[f] = Null
       THEN content_performance' = content_performance
       ELSE content_performance' =
               {IF r.content_id = content_id THEN UpdatedRow(r, m) ELSE r :
                    r \in content_performance}
    /\ perf_seq' = perf_seq

\* datetime('now', '-30 days'), in hours
WindowHours == 720
\* HAVING count >= 3
MinSample == 3

\* WHERE posted_at >= datetime('now', '-30 days')
RecentRows == {r \in content_performance : r.posted_at >= now - WindowHours}

\* one row of SELECT col, COUNT(*), AVG(performance_score), SUM(...) ...
\* GROUP BY col; the average is kept as the pair sum_score / count
GroupRow(col, v) ==
    LET g == {r \in RecentRows : r[col] = v}
    IN  [value |-> v,
         count |-> Cardinality(g),
         sum_score |-> SumOver(g, [r \in g |-> r.performance_score]),
         total_clicks |-> SumOver(g, [r \in g |-> r.clicks]),
         total_conversions |-> SumOver(g, [r \in g |-> r.conversions]),
         total_revenue |-> SumOver(g, [r \in g |-> r.revenue])]

\* GROUP BY col without the HAVING clause
HavingAny(col) ==
    {GroupRow(col, v) : v \in {r[col] : r \in RecentRows}}

\* GROUP BY col HAVING count >= 3
Having(col) ==
    {g \in {GroupRow(col, v) : v \in {r[col] : r \in RecentRows}} : g.count >= MinSample}

\* avg_score of a >= avg_score of b
AvgGE(a, b) == a.sum_score * b.count >= b.sum_score * a.count

\* ORDER BY avg_score ASC
ByAvgAsc(a, b) == AvgGE(b, a)

\* ORDER BY avg_score DESC
ByAvgDesc(a, b) == AvgGE(a, b)

\* ORDER BY total_revenue DESC, avg_score DESC
ByRevenueThenAvgDesc(a, b) ==
    \/ a.total_revenue > b.total_revenue
    \/ a.total_revenue = b.total_revenue /\ AvgGE(a, b)

RECURSIVE OrderByAvg(_)
\* the rows of S in ORDER BY avg_score DESC
OrderByAvg(S) ==
    IF S = {} THEN <<>>
    ELSE LET m == CHOOSE x \in S : \A y \in S : ByAvgDesc(x, y)
         IN  <<m>> \o OrderByAvg(S \ {m})

RECURSIVE OrderByRevenue(_)
\* the rows of S in ORDER BY total_revenue DESC, avg_score DESC
OrderByRevenue(S) ==
    IF S = {} THEN <<>>
    ELSE LET m == CHOOSE x \in S : \A y \in S : ByRevenueThenAvgDesc(x, y)
         IN  <<m>> \o OrderByRevenue(S \ {m})

\* round(avg_score, 2), in hundredths (ties to even)
Round2(sum, count) ==
    LET q == (100 * sum) \div count
        r == (100 * sum) % count
    IN  IF 2 * r > count THEN q + 1
        ELSE IF 2 * r < count THEN q
        ELSE IF q % 2 = 0 THEN q ELSE q + 1

day_names == <<"Mon", "Tue", "Wed", "Thu", "Fri", "Sat", "Sun">>

\* analyze_patterns: the five rankings
analyze_patterns ==
    LET hooks    == OrderByAvg(Having("hook_style"))
        topics   == OrderByAvg(Having("topic"))
        products == OrderByRevenue(Having("product"))
        times    == OrderByAvg(Having("hour_posted"))
        days     == OrderByAvg(Having("day_of_week"))
    IN  [hooks |-> [i \in DOMAIN hooks |->
                       [style |-> hooks[i].value, count |-> hooks[i].count,
                        avg_score |-> Round2(hooks[i].sum_score, hooks[i].count),
                        clicks |-> hooks[i].total_clicks]],
         topics |-> [i \in DOMAIN topics |->
                       [topic |-> topics[i].value, count |-> topics[i].count,
                        avg_score |-> Round2(topics[i].sum_score, topics[i].count),
                        clicks |-> topics[i].total_clicks]],
         products |-> [i \in DOMAIN products |->
                       [product |-> products[i].value, count |-> products[i].count,
                        avg_score |-> Round2(products[i].sum_score, products[i].count),
                        clicks |-> products[i].total_clicks,
                        conversions |-> products[i].total_conversions,
                        revenue |-> products[i].total_revenue]],
         best_times |-> [i \in DOMAIN times |->
                       [hour |-> times[i].value, count |-> times[i].count,
                        avg_score |-> Round2(times[i].sum_score, times[i].count)]],
         best_days |-> [i \in DOMAIN days |->
                       [day |-> day_names[days[i].value + 1], count |-> days[i].count,
                        avg_score |-> Round2(days[i].sum_score, days[i].count)]]]

all_hooks == {"hook", "tutorial", "storytime", "comparison", "results", "controversy"}

\* get_recommendations; exploit is the outcome of random.random() < 0.8 and
\* pick the outcome of random.choice(unused).  None is "NULL" (Null for
\* post_time).
get_recommendations(exploit, pick) ==
    LET patterns == analyze_patterns
        used_hooks == {patterns.hooks[i].style : i \in DOMAIN patterns.hooks}
        unused == all_hooks \ used_hooks
    IN  [hook_style |-> IF patterns.hooks = <<>> THEN "NULL"
                        ELSE IF exploit THEN patterns.hooks[1].style
                        ELSE IF unused # {} /\ pick \in unused THEN pick
                        ELSE "NULL",
         topic |-> IF patterns.topics = <<>> THEN "NULL" ELSE patterns.topics[1].topic,
         product |-> IF patterns.products = <<>> THEN "NULL"
                     ELSE patterns.products[1].product,
         post_time |-> IF patterns.best_times = <<>> THEN Null
                       ELSE patterns.best_times[1].hour]

NoMetrics == [views |-> Null, likes |-> Null, comments |-> Null, shares |-> Null,
              clicks |-> Null, conversions |-> Null, revenue |-> Null]

\* the argument lists update_metrics is called with
MetricUpdates ==
    {NoMetrics,
     [views |-> 2, likes |-> 1, comments |-> 1, shares |-> 1, clicks |-> 1,
      conversions |-> 1, revenue |-> 1],
     [NoMetrics EXCEPT !.views = 1],
     [NoMetrics EXCEPT !.likes = 2],
     [NoMetrics EXCEPT !.conversions = 1]}

PatternUpdates == {[NoMetrics EXCEPT !.views = 2]}

RecordContentStep(cap, ids, profiles, times) ==
    /\ perf_seq < cap
    /\ \E cid \in ids, pr \in profiles, t \in times :
          record_content(cid, "tiktok", "video", pr.hook_style, pr.topic, pr.product, t)
    /\ last' = NoCall
    /\ UNCHANGED <<envVars, uploadVars, abVars, now, second, posterVars, trackerVars, can_create_video, queueVars, daemonVars>>

UpdateMetricsStep(ids, updates) ==
    /\ \E cid \in ids, m \in updates : update_metrics(cid, m)
    /\ last' = NoCall
    /\ UNCHANGED <<envVars, uploadVars, abVars, now, second, posterVars, trackerVars, can_create_video, queueVars, daemonVars>>

----------------------------------------------------------------------------
(* automate.FullAutomation and auto_poster.TikTokPoster *)

SecondsPerHour == 3600

\* datetime.now().strftime('%Y%m%d%H%M%S') read at second sec of the hour
Stamp(sec) == now * SecondsPerHour + sec

\* FullAutomation.niche
Niche == "ai writing tools"

\* generate_tiktok_script: "random" draws a style, any other argument (a
\* style name, an unknown name or None) is returned as the script's style;
\* the product is drawn from the niche's products
generate_tiktok_script(style, drawnStyle, drawnProduct) ==
    [style |-> IF style = "random" THEN drawnStyle ELSE style,
     product |-> drawnProduct]

\* Step 2 of run_cycle: script i of n (counted from 1) uses the recommended
\* hook, the last one a random style
ScriptAt(i, n, preferred_hook, drawnStyle, drawnProduct) ==
    IF i < n THEN generate_tiktok_script(preferred_hook, drawnStyle, drawnProduct)
    ELSE generate_tiktok_script("random", drawnStyle, drawnProduct)

\* Step 3 of run_cycle without the branch that keeps the scripts when FFmpeg
\* is missing
VideoEntryVideosOnly(i, script, made, sec) ==
    IF can_create_video /\ made
    THEN <<[path |-> <<Stamp(sec), i - 1>>, script |-> script,
            content_id |-> <<"auto", Stamp(sec), i - 1>>]>>
    ELSE <<>>

\* Step 3 of run_cycle, item i: the entry appended to videos, as a sequence
\* of zero or one entry.  A path is <<stamp, index>>, None is <<>>.
VideoEntry(i, script, made, sec) ==
    IF can_create_video
    THEN IF made
         THEN <<[path |-> <<Stamp(sec), i - 1>>, script |-> script,
                 content_id |-> <<"auto", Stamp(sec), i - 1>>]>>
         ELSE <<>>
    ELSE <<[path |-> <<>>, script |-> script,
            content_id |-> <<"script", Stamp(sec), i - 1>>]>>

RECURSIVE BuildVideos(_, _, _)
\* Step 3 of run_cycle from item i on
BuildVideos(i, n, inp) ==
    IF i > n THEN <<>>
    ELSE VideoEntry(i, inp.scripts[i], inp.made[i], inp.reads[i])
             \o BuildVideos(i + 1, n, inp)

\* TikTokPoster.queue_video: the metadata file tiktok_<timestamp>.json is
\* written (over an existing file of the same second) next to the copy of
\* the video
queue_video(queue, video_path, sec) ==
    [name \in DOMAIN queue \cup {Stamp(sec)} |->
        IF name = Stamp(sec)
        THEN [video |-> Stamp(sec), source |-> video_path,
              created |-> Stamp(sec), status |-> "queued"]
        ELSE queue[name]]

\* Step 4 of run_cycle for one entry of videos: st holds the stores
QueueOne(st, video, sec) ==
    LET queued == IF video.path # <<>>
                  THEN [st EXCEPT
                           !.queue = queue_video(st.queue, video.path, sec),
                           !.posts = InsertPost(st.posts, "tiktok",
                                                [name |-> video.path, ext |-> ".mp4"], Null)]
                  ELSE [st EXCEPT !.scripts = st.scripts \cup {video.content_id}]
    IN  [queued EXCEPT
            !.perf = InsertOrReplace(st.perf,
                        NewContentRow(st.seq + 1, video.content_id, "tiktok", "video",
                                      video.script.style, Niche, video.script.product, now)),
            !.seq = st.seq + 1]

RECURSIVE QueueAll(_, _, _, _, _)
\* Step 4 of run_cycle from entry k of videos on; entry k reads the clock at
\* reads[n + k]
QueueAll(st, videos, k, n, reads) ==
    IF k > Len(videos) THEN st
    ELSE QueueAll(QueueOne(st, videos[k], reads[n + k]), videos, k + 1, n, reads)

\* the stores FullAutomation.run_cycle works on
Stores ==
    [queue |-> tiktok_queue, posts |-> scheduled_posts, perf |-> content_performance,
     seq |-> perf_seq, scripts |-> script_files, videos |-> video_files]

\* FullAutomation.run_cycle(num_videos = n): the stores after the cycle and
\* the returned list
AutomationCycle(n, inp) ==
    LET videos == BuildVideos(1, n, inp)
        st == QueueAll(Stores, videos, 1, n, inp.reads)
    IN  [st |-> [st EXCEPT !.videos = st.videos \cup
                     {videos[k].path : k \in {j \in DOMAIN videos : videos[j].path # <<>>}}],
         videos |-> videos]

RECURSIVE LaterReads(_, _, _)
\* k successive clock readings from second lo on, none past second hi: a
\* later reading is not earlier
LaterReads(k, lo, hi) ==
    IF k = 0 THEN {<<>>}
    ELSE UNION {{<<v>> \o r : r \in LaterReads(k - 1, v, hi)} : v \in lo..hi}

\* the clock readings of a cycle of n items: one per item in Step 3 and one
\* per item in Step 4
ClockReads(n, maxSecond) == LaterReads(2 * n, second, maxSecond)

\* the inputs of run_cycle(n) once the recommended hook is known: the
\* scripts' random draws, the outcome of each video creation and the clock
CycleInputs(n, preferred_hook, styles, products, maxSecond) ==
    {[scripts |-> [i \in 1..n |-> ScriptAt(i, n, preferred_hook, ds[i], dp[i])],
      made |-> md, reads |-> rd] :
        ds \in [1..n -> styles], dp \in [1..n -> products],
        md \in (IF can_create_video THEN [1..n -> BOOLEAN] ELSE {[i \in 1..n |-> FALSE]}),
        rd \in ClockReads(n, maxSecond)}

\* Step 1 of run_cycle: the hook styles get_recommendations can return
\* (None is "NULL")
PreferredHooks ==
    {get_recommendations(ex, pk).hook_style : ex \in BOOLEAN, pk \in RecPicks}

\* the stores and the clock after a cycle that returned res
StoresBecome(st, n, inp) ==
    /\ tiktok_queue' = st.queue
    /\ scheduled_posts' = st.posts
    /\ content_performance' = st.perf
    /\ perf_seq' = st.seq
    /\ script_files' = st.scripts
    /\ video_files' = st.videos
    /\ second' = IF n = 0 THEN second ELSE inp.reads[2 * n]

run_cycle(n, styles, products, maxSecond) ==
    /\ \E hook \in PreferredHooks :
       \E inp \in CycleInputs(n, hook, styles, products, maxSecond) :
          LET res == AutomationCycle(n, inp)
          IN  /\ StoresBecome(res.st, n, inp)
              /\ last' = [op |-> "run_cycle", arg |-> <<n>>, ret |-> <<res.videos>>]
    /\ UNCHANGED <<envVars, uploadVars, abVars, now, trackerVars, can_create_video, daemonVars>>

----------------------------------------------------------------------------
(* tiktok_uploader.TikTokUploader and scheduler.ContentScheduler *)

RECURSIVE Ascending(_)
\* sorted(...) of a set of file names
Ascending(S) ==
    IF S = {} THEN <<>>
    ELSE LET m == CHOOSE x \in S : \A y \in S : x <= y
         IN  <<m>> \o Ascending(S \ {m})

\* the sleeps of upload_video on the path that returns True, in whole
\* seconds: 3 + 5 + 2 + 0.5 + 0.3 + 2 + 1 + 10
UploadSeconds == 23

\* time.sleep(30) between two uploads of one call
WaitSeconds == 30

\* what happens to one queue entry that is not posted yet: its video file is
\* missing, or upload_video returns True, returns False or raises
UploadOutcomes == {"True", "False", "raise", "missing"}

\* the metadata file rewritten after a successful upload
MarkUploaded(meta, sec) ==
    [f \in DOMAIN meta \cup {"posted_at"} |->
        IF f = "status" THEN "posted"
        ELSE IF f = "posted_at" THEN Stamp(sec)
        ELSE meta[f]]

\* sorted(queue_path.glob("*.json")), read from last to first
QueueFilesDescending(queue) ==
    LET files == Ascending(DOMAIN queue)
    IN  [i \in DOMAIN files |-> files[Len(files) + 1 - i]]

\* sorted(queue_path.glob("*.json"))
QueueFiles(queue) == Ascending(DOMAIN queue)

\* an entry is passed over only when its video file is missing
SkipEntryMissingOnly(meta, outcome) == outcome = "missing"

\* the two "continue" tests of the loop body: the entry is already posted,
\* or it has no video file
SkipEntry(meta, outcome) == meta.status = "posted" \/ outcome = "missing"

\* the entry is marked as posted and counted whatever upload_video did
UploadEntryMarksAnyway(run, name, limit, outcome) ==
    LET sec == run.sec + UploadSeconds
    IN  IF SkipEntry(run.queue[name], outcome) THEN run
        ELSE [run EXCEPT !.calls = Append(@, <<name, outcome>>),
                         !.queue[name] = MarkUploaded(@, sec),
                         !.uploaded = @ + 1,
                         !.sec = IF run.uploaded + 1 < limit THEN sec + WaitSeconds ELSE sec]

\* the loop body of upload_from_queue for the metadata file name; run holds
\* the queue, the counter uploaded, the clock and the calls of upload_video
\* made so far
UploadEntry(run, name, limit, outcome) ==
    LET sec == run.sec + UploadSeconds
        called == [run EXCEPT !.calls = Append(@, <<name, outcome>>)]
    IN  IF SkipEntry(run.queue[name], outcome) THEN run
        ELSE IF outcome = "True"
        THEN [called EXCEPT !.queue[name] = MarkUploaded(@, sec),
                            !.uploaded = @ + 1,
                            !.sec = IF run.uploaded + 1 < limit THEN sec + WaitSeconds
                                    ELSE sec]
        ELSE called

RECURSIVE UploadLoop(_, _, _, _)
\* the loop of upload_from_queue over the remaining file names; out[name] is
\* what happens to that entry when the loop reaches it
UploadLoop(run, names, limit, out) ==
    IF names = <<>> \/ run.uploaded >= limit THEN run
    ELSE UploadLoop(UploadEntry(run, Head(names), limit, out[Head(names)]),
                    Tail(names), limit, out)

\* TikTokUploader.upload_from_queue(limit): the queue and the clock
\* afterwards, the number of uploads and the calls of upload_video
upload_from_queue(queue, exists, limit, out, sec) ==
    LET run == [queue |-> queue, uploaded |-> 0, sec |-> sec, calls |-> <<>>]
    IN  IF ~exists THEN run
        ELSE UploadLoop(run, QueueFiles(queue), limit, out)

\* the entries TikTok accepted among the calls of upload_video
Accepted(calls) ==
    LET good == SelectSeq(calls, LAMBDA c : c[2] = "True")
    IN  [k \in DOMAIN good |-> good[k][1]]

\* TikTokPoster(): the constructor creates content/tiktok_queue
NewTikTokPoster ==
    /\ ~queue_dir_exists
    /\ queue_dir_exists' = TRUE
    /\ last' = [op |-> "TikTokPoster", arg |-> <<>>, ret |-> <<>>]
    /\ UNCHANGED <<envVars, now, second, posterVars, trackerVars, adaptiveVars, can_create_video,
                   queueVars, daemonVars, tiktok_site, abVars>>

\* TikTokPoster.queue_video as a call of its own, at clock reading sec
QueueVideoCall(video_path, sec) ==
    /\ queue_dir_exists
    /\ tiktok_queue' = queue_video(tiktok_queue, video_path, sec)
    /\ second' = sec
    /\ last' = [op |-> "queue_video", arg |-> <<video_path>>, ret |-> <<Stamp(sec)>>]
    /\ UNCHANGED <<envVars, now, posterVars, trackerVars, adaptiveVars, can_create_video,
                   script_files, video_files, daemonVars, uploadVars, abVars>>

\* TikTokUploader.upload_from_queue(limit = limit) as a call of its own
UploadFromQueueCall(limit, out) ==
    LET up == upload_from_queue(tiktok_queue, queue_dir_exists, limit, out, second)
    IN  /\ tiktok_queue' = up.queue
        /\ tiktok_site' = tiktok_site \o Accepted(up.calls)
        /\ second' = up.sec
        /\ last' = [op |-> "upload_from_queue", arg |-> <<limit, out>>,
                    ret |-> <<up.uploaded, up.calls>>]
        /\ UNCHANGED <<envVars, now, posterVars, trackerVars, adaptiveVars, can_create_video,
                       script_files, video_files, daemonVars, queue_dir_exists, abVars>>

\* config.get("videos_per_day", 3), as configured in the model
VideosPerDay == 2

\* datetime.now().strftime("%Y-%m-%d"), as a day number
Today == now \div 24

\* _load_today_log: the saved log when it is of today, a new one otherwise
load_today_log(file) ==
    IF file # <<>> /\ file[1].date = Today THEN file[1]
    ELSE [date |-> Today, generated |-> 0, posted |-> 0, videos |-> <<>>]

RECURSIVE LogVideos(_, _)
\* generate_content: the log after the loop over the returned videos
LogVideos(log, videos) ==
    IF videos = <<>> THEN log
    ELSE LogVideos(IF Head(videos).path # <<>>
                   THEN [log EXCEPT !.videos = Append(@, Head(videos).path),
                                    !.generated = @ + 1]
                   ELSE log,
                   Tail(videos))

\* generate_content(count) on the log and the stores: the log, the stores
\* and the clock afterwards, and the returned paths.  count = Null stands
\* for None.  Nothing happens once generated >= count.
generate_content(log, count, inp) ==
    LET cnt == IF count = Null \/ count = 0 THEN VideosPerDay ELSE count
        remaining == cnt - log.generated
        res == AutomationCycle(remaining, inp)
    IN  IF log.generated >= cnt
        THEN [log |-> log, st |-> Stores, sec |-> second, paths |-> <<>>, saved |-> FALSE]
        ELSE [log |-> LogVideos(log, res.videos),
              st |-> res.st,
              sec |-> IF remaining = 0 THEN second ELSE inp.reads[2 * remaining],
              paths |-> SelectSeq([k \in DOMAIN res.videos |-> res.videos[k].path],
                                  LAMBDA path : path # <<>>),
              saved |-> TRUE]

\* every queued video is uploaded in one go and counted
post_next_videoWholeQueue(log, queue, exists, out, sec) ==
    LET up == upload_from_queue(queue, exists, Cardinality(DOMAIN queue), out, sec)
    IN  [log |-> [log EXCEPT !.posted = @ + up.uploaded], queue |-> up.queue,
         saved |-> up.uploaded > 0, uploaded |-> up.uploaded, sec |-> up.sec,
         calls |-> up.calls]

\* post_next_video on the log and the queue
post_next_video(log, queue, exists, out, sec) ==
    LET up == upload_from_queue(queue, exists, 1, out, sec)
    IN  IF up.uploaded > 0
        THEN [log |-> [log EXCEPT !.posted = @ + 1], queue |-> up.queue, saved |-> TRUE,
              uploaded |-> up.uploaded, sec |-> up.sec, calls |-> up.calls]
        ELSE [log |-> log, queue |-> up.queue, saved |-> FALSE, uploaded |-> 0,
              sec |-> up.sec, calls |-> up.calls]

\* the number of videos the next generate_content(count) asks for
Remaining(log, count) ==
    LET cnt == IF count = Null \/ count = 0 THEN VideosPerDay ELSE count
    IN  IF log.generated >= cnt THEN 0 ELSE cnt - log.generated

\* ContentScheduler.run_cycle: generate if needed, then post the next video
scheduler_run_cycle(styles, products, maxSecond) ==
    \E hook \in PreferredHooks :
    \E inp \in CycleInputs(Remaining(today_log, Null), hook, styles, products, maxSecond) :
        LET gen == IF today_log.generated < VideosPerDay
                   THEN generate_content(today_log, Null, inp)
                   ELSE [log |-> today_log, st |-> Stores, sec |-> second,
                         paths |-> <<>>, saved |-> FALSE]
            dir == queue_dir_exists \/ gen.saved
        IN  \E ok \in [DOMAIN gen.st.queue -> BOOLEAN] :
            LET out == [name \in DOMAIN ok |-> IF ok[name] THEN "True" ELSE "False"]
                post == IF gen.log.posted < VideosPerDay
                        THEN post_next_video(gen.log, gen.st.queue, dir, out, gen.sec)
                        ELSE [log |-> gen.log, queue |-> gen.st.queue, saved |-> FALSE,
                              uploaded |-> 0, sec |-> gen.sec, calls |-> <<>>]
            IN  /\ today_log' = post.log
                /\ daily_log_file' = IF gen.saved \/ post.saved THEN <<post.log>>
                                     ELSE daily_log_file
                /\ tiktok_queue' = post.queue
                /\ scheduled_posts' = gen.st.posts
                /\ content_performance' = gen.st.perf
                /\ perf_seq' = gen.st.seq
                /\ script_files' = gen.st.scripts
                /\ video_files' = gen.st.videos
                /\ queue_dir_exists' = dir
                /\ tiktok_site' = tiktok_site \o Accepted(post.calls)
                /\ second' = post.sec
                /\ last' = [op |-> "scheduler_run_cycle", arg |-> <<>>,
                            ret |-> <<Len(gen.paths), post.uploaded>>]
                /\ UNCHANGED <<envVars, abVars, now, trackerVars, can_create_video>>

\* the job scheduled at 00:05: generate_content()
scheduled_generate(styles, products, maxSecond) ==
    \E hook \in PreferredHooks :
    \E inp \in CycleInputs(Remaining(today_log, Null), hook, styles, products, maxSecond) :
        LET gen == generate_content(today_log, Null, inp)
        IN  /\ today_log' = gen.log
            /\ daily_log_file' = IF gen.saved THEN <<gen.log>> ELSE daily_log_file
            /\ tiktok_queue' = gen.st.queue
            /\ scheduled_posts' = gen.st.posts
            /\ content_performance' = gen.st.perf
            /\ perf_seq' = gen.st.seq
            /\ script_files' = gen.st.scripts
            /\ video_files' = gen.st.videos
            /\ queue_dir_exists' = (queue_dir_exists \/ gen.saved)
            /\ second' = gen.sec
            /\ last' = [op |-> "generate_content", arg |-> <<>>,
                        ret |-> <<Len(gen.paths), 0>>]
            /\ UNCHANGED <<envVars, tiktok_site, abVars, now, trackerVars, can_create_video>>

----------------------------------------------------------------------------
(* voiceover.VoiceoverGenerator and viral_video_creator.ViralVideoCreator *)

\* the characters str.strip() removes that occur in the texts of the model
Whitespace == {" ", "\n"}

RECURSIVE StripLeft(_)
StripLeft(text) ==
    IF text # <<>> /\ Head(text) \in Whitespace THEN StripLeft(Tail(text)) ELSE text

RECURSIVE StripRight(_)
StripRight(text) ==
    IF text # <<>> /\ text[Len(text)] \in Whitespace
    THEN StripRight(SubSeq(text, 1, Len(text) - 1))
    ELSE text

\* str.strip() of a text, a sequence of characters
Strip(text) == StripRight(StripLeft(text))

\* the cache file vo_<hash of the text>.mp3
VoiceFile(text) == <<"vo", text>>

\* gTTS is tried before Edge TTS
generate_voiceoverGttsFirst(text, edge_ok, gtts_ok) ==
    IF Strip(text) = <<>> THEN [ret |-> <<>>, engines |-> <<>>]
    ELSE IF "gtts" \in installed /\ gtts_ok
    THEN [ret |-> VoiceFile(text), engines |-> <<"gtts">>]
    ELSE LET tried == IF "gtts" \in installed THEN <<"gtts">> ELSE <<>>
         IN  IF "edge_tts" \in installed
             THEN [ret |-> IF edge_ok THEN VoiceFile(text) ELSE <<>>,
                   engines |-> Append(tried, "edge_tts")]
             ELSE [ret |-> <<>>, engines |-> tried]

\* VoiceoverGenerator.generate_voiceover(text): the returned path (<<>> for
\* None) and the engines called, in order.  edge_ok tells whether
\* _generate_edge_tts returns True, gtts_ok whether gTTS saves the file.
generate_voiceover(text, edge_ok, gtts_ok) ==
    IF Strip(text) = <<>> THEN [ret |-> <<>>, engines |-> <<>>]
    ELSE IF "edge_tts" \in installed /\ edge_ok
    THEN [ret |-> VoiceFile(text), engines |-> <<"edge_tts">>]
    ELSE LET tried == IF "edge_tts" \in installed THEN <<"edge_tts">> ELSE <<>>
         IN  IF "gtts" \in installed
             THEN [ret |-> IF gtts_ok THEN VoiceFile(text) ELSE <<>>,
                   engines |-> Append(tried, "gtts")]
             ELSE [ret |-> <<>>, engines |-> tried]

RECURSIVE transform_for_storytelling(_)
\* _transform_for_storytelling: the cleaned texts that are not empty, each
\* ended with punctuation, joined with spaces
transform_for_storytelling(texts) ==
    IF texts = <<>> THEN <<>>
    ELSE LET clean == Strip(Head(texts))
             rest == transform_for_storytelling(Tail(texts))
             sentence == IF clean[Len(clean)] \in {".", "!", "?"} THEN clean
                         ELSE Append(clean, ".")
         IN  IF clean = <<>> THEN rest
             ELSE IF rest = <<>> THEN sentence
             ELSE sentence \o <<" ">> \o rest

\* VoiceoverGenerator.generate_for_video_texts
generate_for_video_texts(texts, edge_ok, gtts_ok) ==
    LET script == transform_for_storytelling(texts)
    IN  IF texts = <<>> \/ script = <<>> THEN [ret |-> <<>>, engines |-> <<>>]
        ELSE generate_voiceover(script, edge_ok, gtts_ok)

RECURSIVE StageLoop(_, _, _, _)
\* fetch_psychology_videos, the loop over the three stages from stage i on:
\* env.stage[i] is what fetch_pexels_video returns for stage i (0 for None)
StageLoop(videos, i, num_clips, env) ==
    IF i > 3 THEN videos
    ELSE LET got == IF env.stage[i] # 0 THEN Append(videos, env.stage[i]) ELSE videos
         IN  IF Len(got) >= num_clips THEN got
             ELSE StageLoop(got, i + 1, num_clips, env)

RECURSIVE FillLoop(_, _, _)
\* fetch_psychology_videos, the while loop: env.later is what every later
\* fetch returns and env.cached what _get_cached_video returns
FillLoop(videos, num_clips, env) ==
    IF Len(videos) >= num_clips THEN videos
    ELSE IF env.later # 0 /\ env.later \notin Range(videos)
    THEN FillLoop(Append(videos, env.later), num_clips, env)
    ELSE IF env.cached # 0 /\ env.cached \notin Range(videos)
    THEN Append(videos, env.cached)
    ELSE videos

\* StockMediaFetcher.fetch_psychology_videos(num_clips)
fetch_psychology_videos(num_clips, env) ==
    FillLoop(StageLoop(<<>>, 1, num_clips, env), num_clips, env)

RECURSIVE QueryLoop(_, _, _, _)
\* create_viral_video, the loop "for i in range(num_clips)" over
\* fetch_background_video from call i on
QueryLoop(videos, i, num_clips, env) ==
    IF i > num_clips THEN videos
    ELSE LET video == IF i <= 3 THEN env.stage[i] ELSE env.later
         IN  QueryLoop(IF video # 0 /\ video \notin Range(videos)
                       THEN Append(videos, video) ELSE videos,
                       i + 1, num_clips, env)

\* create_viral_video, the background clips handed to the multi-clip stage
BackgroundVideos(min_cuts, use_psychology_videos, env) ==
    LET num_clips == min_cuts + 1
        bg_videos == IF use_psychology_videos
                     THEN fetch_psychology_videos(num_clips, env)
                     ELSE QueryLoop(<<>>, 1, num_clips, env)
    IN  IF bg_videos = <<>> THEN <<env.later>> ELSE bg_videos

RECURSIVE AssignClips(_, _, _, _, _)
\* _create_with_ffmpeg_multiclip, the loop over valid_videos: the number of
\* entries of clip_assignments, for n texts
AssignClips(clip_idx, current_text_idx, n, num_clips, texts_per_clip) ==
    IF clip_idx = num_clips THEN 0
    ELSE LET soon == current_text_idx + texts_per_clip
             end_text_idx == IF clip_idx = num_clips - 1 \/ soon > n THEN n ELSE soon
         IN  (IF end_text_idx > current_text_idx THEN 1 ELSE 0)
             + AssignClips(clip_idx + 1, end_text_idx, n, num_clips, texts_per_clip)

\* the file output_dir / output_name
OutputPath == <<Stamp(second), 0>>

\* _create_simple_slideshow: every exception ends in None; with no texts
\* image_paths[-1] raises
create_simple_slideshow(run, n, fail) ==
    [run EXCEPT !.stages = Append(@, "slideshow"),
                !.ret = IF n = 0 \/ fail.slideshow THEN <<>> ELSE OutputPath,
                !.clips = 0,
                !.voiceover = FALSE]

\* the single-clip stage without its except clause
create_with_ffmpegUncaught(run, n, bg_video, voiceover_path, fail) ==
    LET entered == [run EXCEPT !.stages = Append(@, "single")]
    IN  IF fail.single
        THEN [entered EXCEPT !.raised = "CalledProcessError"]
        ELSE [entered EXCEPT !.ret = OutputPath,
                             !.clips = IF bg_video # 0 THEN 1 ELSE 0,
                             !.voiceover = (voiceover_path # <<>>)]

\* _create_with_ffmpeg(texts, bg_video, ...): fail.single tells whether one
\* of its FFmpeg calls exits with an error (CalledProcessError)
create_with_ffmpeg(run, n, bg_video, voiceover_path, fail) ==
    LET entered == [run EXCEPT !.stages = Append(@, "single")]
    IN  IF fail.single
        THEN create_simple_slideshow(entered, n, fail)
        ELSE [entered EXCEPT !.ret = OutputPath,
                             !.clips = IF bg_video # 0 THEN 1 ELSE 0,
                             !.voiceover = (voiceover_path # <<>>)]

\* _create_with_ffmpeg_multiclip(texts, bg_videos, ...)
create_with_ffmpeg_multiclip(run, n, bg_videos, voiceover_path, fail) ==
    LET entered == [run EXCEPT !.stages = Append(@, "multi")]
        valid_videos == SelectSeq(bg_videos, LAMBDA v : v # 0)
        num_clips == Len(valid_videos)
        per == IF n \div num_clips > 1 THEN n \div num_clips ELSE 1
        body == IF valid_videos = <<>>
                THEN create_with_ffmpeg(entered, n, 0, voiceover_path, fail)
                ELSE IF fail.multi
                THEN [entered EXCEPT !.raised = "CalledProcessError"]
                ELSE [entered EXCEPT !.ret = OutputPath,
                                     !.clips = AssignClips(0, 0, n, num_clips, per),
                                     !.voiceover = (voiceover_path # <<>>)]
        handled == [body EXCEPT !.raised = ""]
    IN  IF body.raised = "CalledProcessError"
        THEN IF bg_videos # <<>>
             THEN create_with_ffmpeg(handled, n, bg_videos[1], voiceover_path, fail)
             ELSE create_simple_slideshow(handled, n, fail)
        ELSE body

\* a call of create_viral_video that has not entered any stage
NoStage == [ret |-> <<>>, stages |-> <<>>, clips |-> 0, voiceover |-> FALSE, raised |-> ""]

\* one of self.viral_hooks
Hook == <<"h">>

\* self.voiceover_available
voiceover_available == "edge_tts" \in installed \/ "gtts" \in installed

\* ViralVideoCreator.create_viral_video: the texts with the hook, the clips
\* fetched, the voiceover and what the stages made of them
create_viral_video(inp) ==
    LET texts == IF inp.add_hook /\ inp.texts # <<>> THEN <<Hook>> \o inp.texts
                 ELSE inp.texts
        bg_videos == BackgroundVideos(inp.min_cuts, inp.use_psychology_videos, inp.env)
        voice == IF inp.add_voiceover /\ voiceover_available
                 THEN generate_for_video_texts(texts, inp.edge_ok, inp.gtts_ok)
                 ELSE [ret |-> <<>>, engines |-> <<>>]
        run == IF ~can_create_video \/ "PIL" \notin installed THEN NoStage
               ELSE create_with_ffmpeg_multiclip(NoStage, Len(texts), bg_videos,
                                                 voice.ret, inp.fail)
    IN  [n |-> Len(texts), bg_videos |-> bg_videos, voice |-> voice, run |-> run]

\* create_viral_video as a call: the created file appears in content/videos
CreateViralVideoCall(inp) ==
    LET made == create_viral_video(inp)
    IN  /\ video_files' = IF made.run.ret # <<>> THEN video_files \cup {made.run.ret}
                          ELSE video_files
        /\ last' = [op |-> "create_viral_video",
                    arg |-> <<inp.min_cuts, inp.fail, made.n, made.bg_videos>>,
                    ret |-> <<made.run, made.voice>>]
        /\ UNCHANGED <<now, second, posterVars, trackerVars, adaptiveVars, can_create_video,
                       tiktok_queue, script_files, daemonVars, uploadVars, abVars, envVars>>

\* generate_voiceover as a call
GenerateVoiceoverCall(text, edge_ok, gtts_ok) ==
    /\ last' = [op |-> "generate_voiceover", arg |-> <<text, edge_ok, gtts_ok>>,
                ret |-> <<generate_voiceover(text, edge_ok, gtts_ok)>>]
    /\ UNCHANGED <<now, second, posterVars, trackerVars, adaptiveVars, can_create_video,
                   queueVars, daemonVars, uploadVars, abVars, envVars>>

----------------------------------------------------------------------------
(* adaptive_engine.AdaptiveEngine: A/B tests *)

\* "if total >= 100:  # Minimum sample size"
MinimumSampleSize == 100
\* the factor 1.1 of "a_avg > b_avg * 1.1", as the fraction 11 / 10
BetterNum == 11
BetterDen == 10

Max(a, b) == IF a > b THEN a ELSE b

\* the row INSERTed by start_ab_test: the columns it names, every other
\* column at its DEFAULT
NewABTest(id, test_name, variant_a, variant_b) ==
    [id |-> id,
     test_name |-> test_name,
     variant_a |-> variant_a,
     variant_b |-> variant_b,
     a_impressions |-> 0,
     b_impressions |-> 0,
     a_score |-> 0,
     b_score |-> 0,
     winner |-> "NULL",
     status |-> "running"]

\* returns cursor.lastrowid; rows are never deleted, so AUTOINCREMENT gives
\* the number of rows plus one
start_ab_test(test_name, variant_a, variant_b) ==
    LET id == Len(ab_tests) + 1
    IN  /\ ab_tests' = Append(ab_tests, NewABTest(id, test_name, variant_a, variant_b))
        /\ last' = [op |-> "start_ab_test", arg |-> <<test_name, variant_a, variant_b>>,
                    ret |-> <<id>>]

\* the first UPDATE of record_ab_result: "if variant == 'a' ... else ..."
AddResult(test, variant, score) ==
    IF variant = "a"
    THEN [test EXCEPT !.a_impressions = @ + 1, !.a_score = @ + score]
    ELSE [test EXCEPT !.b_impressions = @ + 1, !.b_score = @ + score]

EnoughDataStrict(total) == total > MinimumSampleSize

\* "if total >= 100"
EnoughData(total) == total >= MinimumSampleSize

OutperformsAtAll(x_score, x_n, y_score, y_n) ==
    x_score * Max(y_n, 1) > y_score * Max(x_n, 1)

\* x_avg > y_avg * 1.1 with x_avg = x_score / max(x_n, 1) and y_avg likewise,
\* both sides multiplied by the positive 10 * max(x_n, 1) * max(y_n, 1).
\* For whole-number scores Python's float comparison gives the same answer.
Outperforms(x_score, x_n, y_score, y_n) ==
    BetterDen * x_score * Max(y_n, 1) > BetterNum * y_score * Max(x_n, 1)

\* the if / elif / else that determines the winner
Winner(test) ==
    IF Outperforms(test.a_score, test.a_impressions, test.b_score, test.b_impressions)
    THEN "a"
    ELSE IF Outperforms(test.b_score, test.b_impressions, test.a_score, test.a_impressions)
    THEN "b"
    ELSE "tie"

\* the check made on the row read back after the first UPDATE
Evaluate(test) ==
    IF EnoughData(test.a_impressions + test.b_impressions)
    THEN [test EXCEPT !.winner = Winner(test), !.status = "completed"]
    ELSE test

\* both UPDATEs carry WHERE id = ?: an unknown test_id changes nothing
record_ab_result(test_id, variant, score) ==
    /\ ab_tests' = [i \in DOMAIN ab_tests |->
                       IF ab_tests[i].id = test_id
                       THEN Evaluate(AddResult(ab_tests[i], variant, score))
                       ELSE ab_tests[i]]
    /\ last' = [op |-> "record_ab_result", arg |-> <<test_id, variant, score>>,
                ret |-> <<>>]

RECURSIVE Impressions(_)
\* the impressions recorded in the whole table
Impressions(tests) ==
    IF tests = <<>> THEN 0
    ELSE tests[1].a_impressions + tests[1].b_impressions + Impressions(Tail(tests))

StartABTestStep ==
    /\ Len(ab_tests) < MaxTests
    /\ start_ab_test("hook style", "curiosity", "fear")
    /\ UNCHANGED <<envVars, uploadVars, now, second, posterVars, trackerVars,
                   adaptiveVars, can_create_video, queueVars, daemonVars>>

RecordABResultStep ==
    /\ Impressions(ab_tests) < MinimumSampleSize + MaxExtra
    /\ \E test_id \in 1..MaxTests, variant \in Variants, score \in Scores :
          record_ab_result(test_id, variant, score)
    /\ UNCHANGED <<envVars, uploadVars, now, second, posterVars, trackerVars,
                   adaptiveVars, can_create_video, queueVars, daemonVars>>

----------------------------------------------------------------------------
(* Initial state and specifications *)

InitOtherStores ==
    /\ now = 0
    /\ second = 0
    /\ last = NoCall
    /\ scheduled_posts = <<>>
    /\ links = <<>>
    /\ clicks = <<>>
    /\ conversions = <<>>
    /\ content_performance = {}
    /\ perf_seq = 0
    /\ tiktok_queue = <<>>
    /\ script_files = {}
    /\ video_files = {}
    /\ daily_log_file = <<>>
    /\ today_log = load_today_log(daily_log_file)
    /\ tiktok_site = <<>>

\* every store empty
InitStores ==
    /\ InitOtherStores
    /\ ab_tests = <<>>

\* after FullAutomation(): AutoPoster() has created the queue directory
Init ==
    /\ InitStores
    /\ can_create_video \in BOOLEAN
    /\ queue_dir_exists = TRUE
    /\ installed = Packages

\* the stores on a machine without FFmpeg
InitNoVideo ==
    /\ InitStores
    /\ can_create_video = FALSE
    /\ queue_dir_exists = TRUE
    /\ installed = Packages

\* after scheduler.ContentScheduler(): nothing has created the queue
\* directory yet
InitNoQueue ==
    /\ InitStores
    /\ can_create_video \in BOOLEAN
    /\ queue_dir_exists = FALSE
    /\ installed = Packages

\* after TikTokUploader(), on a machine where nothing has been queued yet
InitUploader ==
    /\ InitStores
    /\ can_create_video = FALSE
    /\ queue_dir_exists = FALSE
    /\ installed = Packages

TickShort == TickIn(ShortClock)

NextPoster ==
    SchedulePostStep \/ MarkPostedStep \/ MarkFailedStep \/ GetPendingPostsStep \/ TickShort
SpecPoster == InitNoVideo /\ [][NextPoster]_vars

NextTracker == AddLinkStep \/ RecordClickStep \/ RecordConversionStep \/ TickShort
SpecTracker == InitNoVideo /\ [][NextTracker]_vars

RecordContentAny ==
    RecordContentStep(MaxRecords, ContentIds, {CHOOSE pr \in Profiles : TRUE}, {Null})
UpdateMetricsAny == UpdateMetricsStep(ContentIds \cup {0}, MetricUpdates)

NextMetrics == RecordContentAny \/ UpdateMetricsAny \/ TickShort
SpecMetrics == InitNoVideo /\ [][NextMetrics]_vars

RecordContentFresh ==
    RecordContentStep(MaxPatternRecords, {perf_seq + 1}, Profiles, {Null})
UpdateMetricsViews == UpdateMetricsStep(1..MaxPatternRecords, PatternUpdates)
TickPattern == TickIn(PatternClock)

NextPatterns == RecordContentFresh \/ UpdateMetricsViews \/ TickPattern
SpecPatterns == InitNoVideo /\ [][NextPatterns]_vars

RunCycleStep ==
    /\ perf_seq < MaxCycleRecords
    /\ \E n \in 0..MaxVideos :
          perf_seq + n <= MaxCycleRecords /\ run_cycle(n, Styles, Products, MaxSecond)

NextAutomation == RunCycleStep \/ TickShort
SpecAutomation == Init /\ [][NextAutomation]_vars

DaemonRunCycle ==
    /\ perf_seq + VideosPerDay <= MaxDaemonRecords
    /\ scheduler_run_cycle(Styles, Products, MaxSecond)

DaemonGenerate ==
    /\ perf_seq + VideosPerDay <= MaxDaemonRecords
    /\ scheduled_generate(Styles, Products, MaxSecond)

TickDay == TickIn(DayClock)

NextDaemon == DaemonRunCycle \/ DaemonGenerate \/ TickDay
SpecDaemon == InitNoQueue /\ [][NextDaemon]_vars

QueueVideoStep ==
    /\ \E video_path \in QueuePaths, sec \in second..(second + 1) :
          /\ Stamp(sec) \in DOMAIN tiktok_queue \/ Cardinality(DOMAIN tiktok_queue) < MaxQueued
          /\ QueueVideoCall(video_path, sec)

\* the entries upload_video has not accepted yet are tried with every
\* outcome; a posted entry's video is one upload_video would accept again
UploadFromQueueStep ==
    LET open == {name \in DOMAIN tiktok_queue : tiktok_queue[name].status # "posted"}
    IN  \E limit \in 0..MaxLimit, tried \in [open -> UploadOutcomes] :
            UploadFromQueueCall(limit, [name \in DOMAIN tiktok_queue |->
                                           IF name \in open THEN tried[name] ELSE "True"])

RECURSIVE TextsUpTo(_, _)
\* the sequences of at most k elements of S
TextsUpTo(S, k) ==
    IF k = 0 THEN {<<>>}
    ELSE LET shorter == TextsUpTo(S, k - 1)
         IN  shorter \cup {Append(t, c) : t \in shorter, c \in S}

\* the overlay texts of a video: words, or blank
VideoTexts == {<<"a">>, <<" ">>}

\* the stock-media answers, the stages whose FFmpeg calls fail and the
\* answers of the speech engines of one create_viral_video call
ViralInputs ==
    [texts : TextsUpTo(VideoTexts, MaxTexts),
     add_hook : BOOLEAN,
     min_cuts : 0..MaxCuts,
     use_psychology_videos : BOOLEAN,
     add_voiceover : BOOLEAN,
     env : [stage : [1..3 -> {0, 1}], later : Fetched, cached : {0, 1}],
     fail : [multi : BOOLEAN, single : BOOLEAN, slideshow : BOOLEAN],
     edge_ok : IF "edge_tts" \in installed THEN BOOLEAN ELSE {FALSE},
     gtts_ok : IF "gtts" \in installed THEN BOOLEAN ELSE {FALSE}]

\* on a machine without FFmpeg or Pillow the call returns at once
CreateViralVideoStep ==
    /\ last = NoCall
    /\ \E inp \in (IF can_create_video /\ "PIL" \in installed THEN ViralInputs
                    ELSE {CHOOSE i \in ViralInputs : TRUE}) :
          CreateViralVideoCall(inp)

GenerateVoiceoverStep ==
    /\ last = NoCall
    /\ \E text \in TextsUpTo(Characters, MaxTexts), edge_ok \in BOOLEAN, gtts_ok \in BOOLEAN :
          GenerateVoiceoverCall(text, edge_ok, gtts_ok)

\* after ViralVideoCreator(): the packages that imported and the FFmpeg found
InitViral ==
    /\ InitStores
    /\ can_create_video \in BOOLEAN
    /\ queue_dir_exists = TRUE
    /\ installed \in SUBSET Packages

NextViral == CreateViralVideoStep \/ GenerateVoiceoverStep
SpecViral == InitViral /\ [][NextViral]_vars

NextUploader == NewTikTokPoster \/ QueueVideoStep \/ UploadFromQueueStep
SpecUploader == InitUploader /\ [][NextUploader]_vars

\* the impressions of test 1 when the model takes over
WarmTotal == MinimumSampleSize - 2

\* test 1 after WarmTotal calls of record_ab_result, a_n of them for variant
\* 'a', in which each variant scored the same every time
WarmTest(a_n, avg) ==
    [NewABTest(1, "hook style", "curiosity", "fear") EXCEPT
        !.a_impressions = a_n,
        !.b_impressions = WarmTotal - a_n,
        !.a_score = avg[1] * a_n,
        !.b_score = avg[2] * (WarmTotal - a_n)]

\* an AdaptiveEngine whose first test has run for a while
InitABTest ==
    /\ InitOtherStores
    /\ can_create_video = FALSE
    /\ queue_dir_exists = TRUE
    /\ installed = Packages
    /\ ab_tests \in {<<WarmTest(a_n, avg)>> : a_n \in {0, WarmTotal \div 2, WarmTotal},
                                                avg \in WarmAverages}

NextABTest == StartABTestStep \/ RecordABResultStep
SpecABTest == InitABTest /\ [][NextABTest]_vars

----------------------------------------------------------------------------
(* Properties *)

PostStatuses == {"pending", "posted", "failed"}

\* C1: every scheduled_posts row has a status among pending, posted and
\* failed; the row schedule_post has just created is pending, the row
\* mark_posted has just updated is posted and the row mark_failed has just
\* updated is failed.
C1_StatusEnum ==
    /\ \A i \in DOMAIN scheduled_posts : scheduled_posts[i].status \in PostStatuses
    /\ last.op = "schedule_post" => scheduled_posts[last.ret[1]].status = "pending"
    /\ last.op = "mark_posted" =>
          \A i \in DOMAIN scheduled_posts :
              scheduled_posts[i].id = last.arg[1] => scheduled_posts[i].status = "posted"
    /\ last.op = "mark_failed" =>
          \A i \in DOMAIN scheduled_posts :
              scheduled_posts[i].id = last.arg[1] => scheduled_posts[i].status = "failed"

\* a row has just been marked failed while another one is posted
C1_Witness ==
    /\ last.op = "mark_failed"
    /\ \E i \in DOMAIN scheduled_posts :
          scheduled_posts[i].id = last.arg[1] /\ scheduled_posts[i].status = "failed"
    /\ \E i \in DOMAIN scheduled_posts : scheduled_posts[i].status = "posted"

ClicksOf(id) == {i \in DOMAIN clicks : clicks[i].link_id = id}
ConversionsOf(id) == {i \in DOMAIN conversions : conversions[i].link_id = id}

\* C2: for every link returned by get_links, total_clicks is the number of
\* click rows of the link and total_conversions the number of its
\* conversion rows.
C2_CountsMatchRows ==
    LET res == get_links(GetLinksLimit)
    IN  \A i \in DOMAIN res :
            /\ res[i].total_clicks = Cardinality(ClicksOf(res[i].id))
            /\ res[i].total_conversions = Cardinality(ConversionsOf(res[i].id))

\* a link with two clicks and two conversions, and a link with no event
C2_Witness ==
    LET res == get_links(GetLinksLimit)
    IN  /\ \E i \in DOMAIN res : res[i].total_clicks = 2 /\ res[i].total_conversions = 2
        /\ \E i \in DOMAIN res : res[i].total_clicks = 0 /\ res[i].total_conversions = 0

\* C3: for every link returned by get_links, total_revenue is the sum of the
\* amounts of the conversions of the link.
C3_RevenueIsSum ==
    LET res == get_links(GetLinksLimit)
    IN  \A i \in DOMAIN res :
            res[i].total_revenue =
                SumOver(ConversionsOf(res[i].id),
                        [k \in DOMAIN conversions |-> conversions[k].amount])

LinkIds == {links[i].id : i \in DOMAIN links}

\* C4: record_click and record_conversion with an unknown short code return
\* False and change no table; with a known short code they return True and
\* append exactly one row carrying the id of that link; every click and
\* conversion row references an existing link.
C4_RecordChecksLink ==
    [][/\ last'.op = "record_click" =>
            LET link == {l \in Range(links) : l.short_code = last'.arg[1]}
            IN  IF link = {}
                THEN last'.ret = <<FALSE>> /\ UNCHANGED trackerVars
                ELSE /\ last'.ret = <<TRUE>>
                     /\ UNCHANGED <<links, conversions>>
                     /\ Len(clicks') = Len(clicks) + 1
                     /\ SubSeq(clicks', 1, Len(clicks)) = clicks
                     /\ \E l \in link : clicks'[Len(clicks')].link_id = l.id
       /\ last'.op = "record_conversion" =>
            LET link == {l \in Range(links) : l.short_code = last'.arg[1]}
            IN  IF link = {}
                THEN last'.ret = <<FALSE>> /\ UNCHANGED trackerVars
                ELSE /\ last'.ret = <<TRUE>>
                     /\ UNCHANGED <<links, clicks>>
                     /\ Len(conversions') = Len(conversions) + 1
                     /\ SubSeq(conversions', 1, Len(conversions)) = conversions
                     /\ \E l \in link : conversions'[Len(conversions')].link_id = l.id
       /\ \A i \in DOMAIN clicks' : clicks'[i].link_id \in {links'[k].id : k \in DOMAIN links'}
       /\ \A i \in DOMAIN conversions' :
              conversions'[i].link_id \in {links'[k].id : k \in DOMAIN links'}
      ]_vars

\* a call with an unknown short code has just returned False, after clicks
\* and conversions were recorded for known ones
C4_Witness ==
    /\ last.op \in {"record_click", "record_conversion"}
    /\ last.ret = <<FALSE>>
    /\ clicks # <<>>
    /\ conversions # <<>>

WeightedSum(r) ==
    1 * r.views + 5 * r.likes + 10 * r.comments + 15 * r.shares + 50 * r.clicks

\* C5: every content_performance row's performance_score is the weighted sum
\* 1*views + 5*likes + 10*comments + 15*shares + 50*clicks of its stored
\* counters.
C5_ScoreIsWeightedSum ==
    \A r \in content_performance : r.performance_score = WeightedSum(r)

StoredContentIds == {r.content_id : r \in content_performance}

\* C6: content_performance holds one row per recorded content_id: a
\* record_content call (a step that draws a new row id) makes its content_id
\* present, leaves exactly one row for it and removes no other content_id.
C6_OneRowPerContent ==
    [][/\ perf_seq' # perf_seq =>
            \E r \in content_performance' :
                /\ r.id = perf_seq'
                /\ StoredContentIds' = StoredContentIds \cup {r.content_id}
                /\ {q \in content_performance' : q.content_id = r.content_id} = {r}
       /\ Cardinality(content_performance') = Cardinality(StoredContentIds')
      ]_vars

\* a content_id has been recorded a second time, next to another one
C6_Witness ==
    /\ Cardinality(content_performance) = 2
    /\ perf_seq > 2

\* the rows posted in the last 30 days that carry value v in column col
RecentWith(col, v) ==
    {r \in content_performance : r.posted_at >= now - 30 * 24 /\ r[col] = v}

\* the values of column col carried by at least 3 rows of the last 30 days
Qualifying(col) ==
    {v \in {r[col] : r \in content_performance} : Cardinality(RecentWith(col, v)) >= 3}

NonIncreasing(ranking) ==
    \A i, j \in DOMAIN ranking : i < j => ranking[i].avg_score >= ranking[j].avg_score

ScoreSum(col, v) ==
    SumOver(RecentWith(col, v), [r \in RecentWith(col, v) |-> r.performance_score])

\* v has the highest average performance score among the qualifying values
HighestAverage(col, v) ==
    /\ v \in Qualifying(col)
    /\ \A w \in Qualifying(col) :
          ScoreSum(col, v) * Cardinality(RecentWith(col, w))
              >= ScoreSum(col, w) * Cardinality(RecentWith(col, v))

\* C8: the hooks, topics, best_times and best_days rankings are in
\* non-increasing order of average score; get_recommendations returns the
\* qualifying topic and hour of highest average score, None without one.
C8_RankedByAverage ==
    LET p == analyze_patterns
    IN  /\ NonIncreasing(p.hooks)
        /\ NonIncreasing(p.topics)
        /\ NonIncreasing(p.best_times)
        /\ NonIncreasing(p.best_days)
        /\ \A exploit \in BOOLEAN, pick \in {"controversy"} :
              LET rec == get_recommendations(exploit, pick)
              IN  /\ IF Qualifying("topic") = {} THEN rec.topic = "NULL"
                     ELSE HighestAverage("topic", rec.topic)
                  /\ IF Qualifying("hour_posted") = {} THEN rec.post_time = Null
                     ELSE HighestAverage("hour_posted", rec.post_time)

\* two topics are ranked, with different averages
C8_Witness ==
    LET p == analyze_patterns
    IN  /\ Len(p.topics) = 2
        /\ p.topics[1].avg_score > p.topics[2].avg_score
        /\ Len(p.best_times) >= 1

\* C9: without FFmpeg, run_cycle(n) returns n entries whose path is None,
\* creates no video, queues nothing, schedules no post, saves a script file
\* for each of the n scripts and records each of the n items.
C9_ScriptsOnlyWithoutFfmpeg ==
    [][(last'.op = "run_cycle" /\ ~ can_create_video) =>
          LET n == last'.arg[1]
              returned == last'.ret[1]
          IN  /\ Len(returned) = n
              /\ \A k \in DOMAIN returned : returned[k].path = <<>>
              /\ Cardinality({returned[k].content_id : k \in DOMAIN returned}) = n
              /\ video_files' = video_files
              /\ tiktok_queue' = tiktok_queue
              /\ scheduled_posts' = scheduled_posts
              /\ \A k \in DOMAIN returned :
                    /\ returned[k].content_id \in script_files'
                    /\ \E r \in content_performance' :
                          /\ r.content_id = returned[k].content_id
                          /\ r.hook_style = returned[k].script.style
                          /\ r.product = returned[k].script.product
              /\ perf_seq' = perf_seq + n
      ]_vars

\* a cycle of two scripts has just run without FFmpeg, after an earlier cycle
C9_Witness ==
    /\ ~ can_create_video
    /\ last.op = "run_cycle"
    /\ last.arg = <<2>>
    /\ Len(last.ret[1]) = 2
    /\ perf_seq > 2
    /\ Cardinality(script_files) >= 2

\* C10: the daily log counts per day: after the first cycle that runs on a
\* later date than the date of the log, the generated and posted counters
\* count the videos generated and posted by that cycle only.
C10_CountersRestartEachDay ==
    [][(last'.op \in {"scheduler_run_cycle", "generate_content"} /\ today_log.date # Today) =>
          /\ today_log'.generated = last'.ret[1]
          /\ today_log'.posted = last'.ret[2]
      ]_vars

\* the entries whose metadata status became "posted" in the step
NewlyPosted ==
    {name \in DOMAIN tiktok_queue :
        /\ tiktok_queue[name].status # "posted"
        /\ tiktok_queue'[name].status = "posted"}

\* the file names of a sequence of upload_video calls
CallNames(calls) == [k \in DOMAIN calls |-> calls[k][1]]

C13_PostedOnlyAfterTrue ==
    [][last'.op = "upload_from_queue" =>
        LET out == last'.arg[2]
            uploaded == last'.ret[1]
            calls == last'.ret[2]
            failed == {k \in DOMAIN calls : calls[k][2] \in {"False", "raise"}}
            eligible(name) == /\ tiktok_queue[name].status # "posted"
                              /\ out[name] # "missing"
        IN  /\ \A name \in NewlyPosted :
                  \E k \in DOMAIN calls : calls[k] = <<name, "True">>
            /\ uploaded = Cardinality({k \in DOMAIN calls : calls[k][2] = "True"})
            /\ \A k \in failed :
                  LET name == calls[k][1]
                      later == {n \in DOMAIN tiktok_queue : n > name /\ eligible(n)}
                  IN  /\ tiktok_queue'[name] = tiktok_queue[name]
                      /\ \A j \in DOMAIN calls : calls[j][1] = name => j = k
                      /\ later # {} =>
                            /\ k < Len(calls)
                            /\ calls[k + 1][1] = CHOOSE n \in later : \A m \in later : n <= m]_vars

\* a call in which upload_video failed for the first entry, by raising or by
\* returning False, and returned True for the next one
C13_Witness ==
    /\ last.op = "upload_from_queue"
    /\ Len(last.ret[2]) = 2
    /\ last.ret[2][1][2] \in {"False", "raise"}
    /\ last.ret[2][2][2] = "True"
    /\ last.ret[1] = 1
    /\ tiktok_queue[last.ret[2][1][1]].status = "queued"
    /\ tiktok_queue[last.ret[2][2][1]].status = "posted"

\* C14: a video made by create_viral_video(min_cuts = k) has at least k
\* cuts, that is, it is assembled from at least k + 1 background clips,
\* whatever the stock-media fetches returned.  Stated for the calls in which
\* no FFmpeg call failed and there are at least k + 1 texts to show.
C14_AtLeastMinCuts ==
    LET min_cuts == last.arg[1]
        fail == last.arg[2]
        n == last.arg[3]
        run == last.ret[1]
    IN  (/\ last.op = "create_viral_video"
         /\ run.ret # <<>>
         /\ ~fail.multi /\ ~fail.single /\ ~fail.slideshow
         /\ n >= min_cuts + 1)
        => run.clips >= min_cuts + 1

\* C15: get_pending_posts returns exactly the posts whose status is
\* "pending" and whose scheduled_time is not later than the current time,
\* restricted to the platform when one is passed, in ascending order of
\* scheduled_time; a post marked posted or failed is never returned.
C15_PendingPostsAreDue ==
    last.op = "get_pending_posts" =>
        LET platform == last.arg[1]
            rows == last.ret[1]
        IN  /\ Range(rows) =
                  {r \in Range(scheduled_posts) :
                      /\ r.status = "pending"
                      /\ r.scheduled_time <= now
                      /\ platform # "NULL" => r.platform = platform}
            /\ \A i, j \in DOMAIN rows :
                  i < j => /\ rows[i].id # rows[j].id
                           /\ rows[i].scheduled_time <= rows[j].scheduled_time
            /\ \A i \in DOMAIN rows : rows[i].status \notin {"posted", "failed"}

\* a call for one platform that returned the later-inserted post only: the
\* other post is of the platform too and due, but marked posted or failed
C15_Witness ==
    /\ last.op = "get_pending_posts"
    /\ last.arg[1] = "tiktok"
    /\ Len(last.ret[1]) = 1
    /\ last.ret[1][1].id = 2
    /\ Len(scheduled_posts) = 2
    /\ scheduled_posts[1].platform = "tiktok"
    /\ scheduled_posts[1].scheduled_time <= now
    /\ scheduled_posts[1].status \in {"posted", "failed"}

\* C16: over any sequence of scheduler run_cycle calls the counters
\* generated and posted of the daily log never exceed videos_per_day.  A
\* cycle asks for the missing videos_per_day - generated videos only and
\* for nothing once that count is reached; it posts at most one video, and
\* only while posted < videos_per_day.
C16_DailyLimits ==
    [][last'.op = "scheduler_run_cycle" =>
        LET missing == VideosPerDay - today_log.generated
            recorded == perf_seq' - perf_seq
            made == today_log'.generated - today_log.generated
            sent == today_log'.posted - today_log.posted
        IN  /\ today_log'.generated <= VideosPerDay
            /\ today_log'.posted <= VideosPerDay
            /\ made \in 0..(IF missing > 0 THEN missing ELSE 0)
            /\ recorded \in 0..(IF missing > 0 THEN missing ELSE 0)
            /\ Cardinality(video_files' \ video_files) <= made
            /\ missing <= 0 => UNCHANGED <<video_files, script_files, content_performance>>
            /\ sent \in {0, 1}
            /\ sent = Len(tiktok_site') - Len(tiktok_site)
            /\ today_log.posted >= VideosPerDay => sent = 0]_vars

\* on the first day, a cycle that found the day's videos generated, asked
\* for none and posted the last one allowed
C16_Witness ==
    /\ last.op = "scheduler_run_cycle"
    /\ last.ret = <<0, 1>>
    /\ now < 24
    /\ today_log.generated = VideosPerDay
    /\ today_log.posted = VideosPerDay

\* the status and the winner of a test agree with its impressions
C17_Settled(test) ==
    LET total == test.a_impressions + test.b_impressions
    IN  /\ test.status = "completed" <=> total >= 100
        /\ total < 100 => test.status = "running" /\ test.winner = "NULL"
        /\ test.status = "completed" => test.winner \in {"a", "b", "tie"}

\* C17: in every state of the ab_tests table a test is 'completed' if and
\* only if a_impressions + b_impressions >= 100; below 100 it is 'running'
\* with no winner, and a completed test has winner 'a', 'b' or 'tie'.  Each
\* record_ab_result call for a test adds one impression to one variant of
\* that test only: to a when the variant is 'a', to b for any other value.
C17_CompletedIffHundred ==
    [][/\ \A i \in DOMAIN ab_tests : C17_Settled(ab_tests[i])
       /\ \A i \in DOMAIN ab_tests' : C17_Settled(ab_tests'[i])
       /\ last'.op = "record_ab_result" =>
            /\ DOMAIN ab_tests' = DOMAIN ab_tests
            /\ \A i \in DOMAIN ab_tests :
                 LET old == ab_tests[i]
                     new == ab_tests'[i]
                     da == new.a_impressions - old.a_impressions
                     db == new.b_impressions - old.b_impressions
                 IN  IF old.id # last'.arg[1] THEN new = old
                     ELSE IF last'.arg[2] = "a" THEN da = 1 /\ db = 0
                     ELSE da = 0 /\ db = 1]_vars

\* the call with variant "A" that completed test 1 at exactly 100
\* impressions, counted for b, while test 2 is running with one impression
C17_Witness ==
    /\ last.op = "record_ab_result"
    /\ last.arg[1] = 1
    /\ last.arg[2] = "A"
    /\ Len(ab_tests) = 2
    /\ ab_tests[1].status = "completed"
    /\ ab_tests[1].a_impressions + ab_tests[1].b_impressions = 100
    /\ ab_tests[1].b_impressions > 0
    /\ ab_tests[2].status = "running"
    /\ ab_tests[2].a_impressions + ab_tests[2].b_impressions = 1

\* C18: a test with at least 100 impressions has winner 'a' exactly when a's
\* average score is above 1.1 times b's average, 'b' exactly when that
\* fails and b's average is above 1.1 times a's, and 'tie' otherwise; the
\* average of a variant without impressions is 0.  The averages
\* a_score / a_n and b_score / b_n are compared after multiplying by 10 a_n b_n.
C18_WinnerByTenPercent ==
    \A i \in DOMAIN ab_tests :
        LET test == ab_tests[i]
            a_n == IF test.a_impressions = 0 THEN 1 ELSE test.a_impressions
            b_n == IF test.b_impressions = 0 THEN 1 ELSE test.b_impressions
            a_wins == 10 * test.a_score * b_n > 11 * test.b_score * a_n
            b_wins == 10 * test.b_score * a_n > 11 * test.a_score * b_n
        IN  test.a_impressions + test.b_impressions >= 100 =>
               /\ test.winner = "a" <=> a_wins
               /\ test.winner = "b" <=> ~ a_wins /\ b_wins
               /\ test.winner = "tie" <=> ~ a_wins /\ ~ b_wins

\* a test evaluated as a tie although a's average is the higher one: it is
\* exactly 1.1 times b's average
C18_Witness ==
    /\ last.op = "record_ab_result"
    /\ \E i \in DOMAIN ab_tests :
          /\ ab_tests[i].id = last.arg[1]
          /\ ab_tests[i].a_impressions + ab_tests[i].b_impressions >= 100
          /\ ab_tests[i].a_impressions > 0
          /\ ab_tests[i].b_impressions > 0
          /\ ab_tests[i].winner = "tie"
          /\ 10 * ab_tests[i].a_score * ab_tests[i].b_impressions
                = 11 * ab_tests[i].b_score * ab_tests[i].a_impressions

\* C19: create_viral_video ends with an output path or None and never with
\* an exception, whichever stages have failing FFmpeg calls.  The stages
\* entered are a beginning of multi-clip, single-clip, slideshow, each at
\* most once: a call on a machine with FFmpeg and Pillow starts with the
\* multi-clip stage, a later stage is entered only after the one before it
\* failed or had no valid clip, a stage that does not fail ends the call
\* with a path, and None comes only at the end of the chain.
C19_FallbackChain ==
    last.op = "create_viral_video" =>
        LET run == last.ret[1]
            fail == last.arg[2]
            bg_videos == last.arg[4]
            ready == can_create_video /\ "PIL" \in installed
            no_clip == \A i \in DOMAIN bg_videos : bg_videos[i] = 0
            chain == <<"multi", "single", "slideshow">>
            entered == Len(run.stages)
        IN  /\ run.raised = ""
            /\ entered <= 3
            /\ run.stages = SubSeq(chain, 1, entered)
            /\ ready <=> entered >= 1
            /\ entered >= 2 => fail.multi \/ no_clip
            /\ entered = 3 => fail.single
            /\ entered = 1 => ~ fail.multi /\ run.ret # <<>>
            /\ entered = 2 => ~ fail.single /\ run.ret # <<>>
            /\ entered = 3 /\ ~ fail.slideshow /\ last.arg[3] > 0 => run.ret # <<>>
            /\ run.ret = <<>> => entered \in {0, 3}

\* a call with two clips and a text in which every stage failed: it went
\* through the three stages and returned None
C19_Witness ==
    /\ last.op = "create_viral_video"
    /\ last.arg[2] = [multi |-> TRUE, single |-> TRUE, slideshow |-> TRUE]
    /\ last.arg[3] > 0
    /\ Len(last.arg[4]) = 2
    /\ last.arg[4][1] # 0
    /\ last.ret[1].stages = <<"multi", "single", "slideshow">>
    /\ last.ret[1].ret = <<>>
    /\ last.ret[1].raised = ""

\* C20: generate_voiceover returns None for a blank text without calling an
\* engine.  For any other text it calls Edge TTS first when that is
\* installed and returns its file when it succeeds; gTTS is called only
\* when Edge TTS is missing or has failed; the result is None exactly when
\* neither engine is installed and succeeds.  A create_viral_video call that
\* gets no voiceover still enters the stages, builds the video when no
\* stage fails, and the video has no voiceover track.
C20_VoiceoverFallback ==
    /\ last.op = "generate_voiceover" =>
          LET text == last.arg[1]
              voice == last.ret[1]
              blank == \A i \in DOMAIN text : text[i] \in {" ", "\n"}
              edge == "edge_tts" \in installed
              edge_done == edge /\ last.arg[2]
              gtts_done == "gtts" \in installed /\ last.arg[3]
              called(e) == \E i \in DOMAIN voice.engines : voice.engines[i] = e
          IN  IF blank THEN voice.ret = <<>> /\ voice.engines = <<>>
              ELSE /\ edge <=> called("edge_tts")
                   /\ edge => voice.engines[1] = "edge_tts"
                   /\ edge_done => voice.ret # <<>> /\ voice.engines = <<"edge_tts">>
                   /\ called("gtts") <=> "gtts" \in installed /\ ~ edge_done
                   /\ voice.ret = <<>> <=> ~ edge_done /\ ~ gtts_done
    /\ last.op = "create_viral_video" /\ last.ret[2].ret = <<>> =>
          LET run == last.ret[1]
              fail == last.arg[2]
          IN  /\ ~ run.voiceover
              /\ can_create_video /\ "PIL" \in installed => run.stages # <<>>
              /\ /\ can_create_video /\ "PIL" \in installed
                 /\ ~ fail.multi /\ ~ fail.single /\ ~ fail.slideshow
                 => run.ret # <<>>

\* Edge TTS was called for a text with words and failed, gTTS then gave the
\* voiceover
C20_Witness ==
    /\ last.op = "generate_voiceover"
    /\ \E i \in DOMAIN last.arg[1] : last.arg[1][i] = "a"
    /\ ~ last.arg[2]
    /\ last.ret[1].engines = <<"edge_tts", "gtts">>
    /\ last.ret[1].ret # <<>>

====
